---- MODULE Spec2Model ----
(***************************************************************************)
(* Model of the asset/track matcher of src/lib/analyzer.ts.  The file      *)
(* holds two variants of the same analysis: analyzeData (lines 65-169,     *)
(* OHE and Signal assets, records carry distance_m) and the POST route     *)
(* handler (lines 295-480, OHE assets only, summary carries min_speed).    *)
(*                                                                         *)
(* Numbers.  A coordinate is an integer number of units of 0.0005 degree,  *)
(* so that the grid cell of 0.001 degree is GridDeg = 2 units wide.  All   *)
(* model coordinates lie within 0.002 degree of (0, 0), where the          *)
(* haversine distance equals R * sqrt(dphi^2 + dlambda^2) to a relative    *)
(* error below 1e-9; distances and thresholds are integers in centimetres  *)
(* (one unit is 55.597 m, taken as CmPerUnit = 5560 cm).  Floating-point   *)
(* rounding of the division lat / gridDeg is not modelled.                 *)
(*                                                                         *)
(* JavaScript values are records: Num(n), NaN, Null, Infinity.  A CSV      *)
(* cell is a record holding its text: Numeral(n) is the decimal numeral    *)
(* of n, Str(s) any other text, Undefined a missing key.                   *)
(***************************************************************************)
EXTENDS Integers, Sequences, FiniteSets, TLC

VARIABLES
  variant,      \* "analyzeData" or "POST": which handler runs
  rtisData,     \* parsed track rows   (parseCSV output)
  oheData,      \* parsed OHE rows
  sigData,      \* parsed Signal rows  (analyzeData only)
  maxDistIn,    \* the threshold as handed in (argument / form field), cm
  maxDistance,  \* the threshold the matcher uses, cm
  pc,           \* position of the handler
  i,            \* next row of the running forEach (1-based)
  grid,         \* GridIndex.grid: cell key -> bucket
  results,      \* results array
  picks,        \* per pushed record: the locals bestIdx, bestDist of its performMatch
  oheMatches,   \* analyzeData: oheMatches;  POST: matchedCount
  sigMatches,   \* analyzeData: sigMatches
  totalSpeed, speedCount, maxSpeed, minSpeed,
  response,     \* what the handler returns
  pointA, pointB,   \* distance between far points: the two points, <<lat, lon>>
  distAB, distBA,   \* haversineMeters(A, B) and haversineMeters(B, A), once computed
  pending,      \* matching in any order: positions of the asset rows still to match
  order,        \* matching in any order: positions matched so far, in the order taken
  rtisFile, oheFile,   \* page: the uploaded files, or NoFile
  pageMaxDistance,     \* page: the state maxDistance, metres
  isProcessing,        \* page: the state isProcessing
  status,              \* page: the state status, [type, message]
  pageResults,         \* page: the state results
  call,                \* page: the analyzeData promise awaited, "none" or "pending"
  started              \* page: how many analyses handleAnalyze has started

\* the variables of the analysis
analysisVars ==
  <<variant, rtisData, oheData, sigData, maxDistIn, maxDistance, pc, i, grid,
    results, picks, oheMatches, sigMatches, totalSpeed, speedCount, maxSpeed,
    minSpeed, response>>

\* the variables of the distance computation between far points
distanceVars == <<pointA, pointB, distAB, distBA>>

\* the variables of matching the assets in an arbitrary order
orderVars == <<pending, order>>

\* the state of the page component and of its pending analysis
pageVars ==
  <<rtisFile, oheFile, pageMaxDistance, isProcessing, status, pageResults, call, started>>

\* the variables an analysis in list order leaves alone
aside == <<distanceVars, orderVars, pageVars>>

vars == <<analysisVars, distanceVars, orderVars, pageVars>>

----------------------------------------------------------------------------
(* Bounds of the model *)
MaxTrack  == 2      \* most track rows
MaxAssets == 2      \* most asset rows (OHE and Signal together)

(* Program constants *)
GridDeg   == 2      \* new GridIndex(0.001): 0.001 degree = 2 units
CmPerUnit == 5560   \* R = 6371000 m: 0.0005 degree of arc, in cm
DefaultMaxDistance == 5000  \* POST: parseFloat(...) || 50, in cm

----------------------------------------------------------------------------
(* JavaScript values *)
Num(n)   == [t |-> "num", v |-> n]
NaN      == [t |-> "NaN"]
Null     == [t |-> "null"]
Infinity == [t |-> "inf"]

(* CSV cells *)
Numeral(n) == [text |-> "numeral", v |-> n]
Str(s)     == [text |-> s]
Undefined  == [text |-> "undefined"]

\* Number.parseFloat on a cell: a numeral parses, the text Infinity gives
\* Infinity, any other text, the empty string and undefined give NaN.
parseFloat(cell) ==
  CASE cell.text = "numeral"  -> Num(cell.v)
    [] cell.text = "Infinity" -> Infinity
    [] OTHER                  -> NaN

isNaN(x) == x.t = "NaN"

\* row[key]: undefined when the row has no such key (a null column name included)
Cell(row, key) == IF key \in DOMAIN row THEN row[key] ELSE Undefined

\* cell || dflt for a text cell: undefined and "" are falsy
OrElse(cell, dflt) ==
  IF cell.text \in {"undefined", ""} THEN dflt
  ELSE IF cell.text = "numeral" THEN "numeral" ELSE cell.text

\* the header and alias names of the model that are not lower-case already
LowerOf ==
  ("Latitude" :> "latitude") @@ ("LATITUDE" :> "latitude") @@
  ("Longitude" :> "longitude") @@ ("Logging Time" :> "logging time") @@
  ("LoggingTime" :> "loggingtime") @@ ("Speed" :> "speed") @@
  ("Lat_deg" :> "lat_deg") @@ ("OHEMas" :> "ohemas") @@ ("OHE" :> "ohe") @@
  ("SIGNAL" :> "signal") @@ ("SignalName" :> "signalname") @@
  ("Signal" :> "signal") @@ ("Y" :> "y") @@ ("X" :> "x")

\* String.prototype.toLowerCase on the header and alias names of the model
toLowerCase(s) == IF s \in DOMAIN LowerOf THEN LowerOf[s] ELSE s

NoColumn == "<null>"    \* findColumn's null

\* findColumn(data, names): null on an empty dataset; else the header of the
\* first row matching, case-insensitively, the first alias that matches any.
RECURSIVE findAlias(_, _, _)
findAlias(headers, names, k) ==
  IF k > Len(names) THEN NoColumn
  ELSE LET m == {h \in headers : toLowerCase(h) = toLowerCase(names[k])}
       IN  IF m # {} THEN CHOOSE h \in m : TRUE
           ELSE findAlias(headers, names, k + 1)

findColumn(data, names) ==
  IF Len(data) = 0 THEN NoColumn
  ELSE findAlias(DOMAIN data[1], names, 1)

----------------------------------------------------------------------------
(* Distance *)
\* the integer square root of n by Newton's iteration from x >= sqrt(n) > 0
RECURSIVE Newton(_, _)
Newton(n, x) ==
  LET y == (x + n \div x) \div 2
  IN  IF y >= x THEN x ELSE Newton(n, y)

\* the least s with s * s >= n, for small n
RECURSIVE CeilRoot(_, _)
CeilRoot(n, s) == IF s * s >= n THEN s ELSE CeilRoot(n, s + 1)

\* scale * Math.sqrt(d2), rounded to the nearest integer
ScaledSqrt(scale, d2) ==
  IF d2 = 0 THEN 0
  ELSE LET n == scale * scale * d2
           r == Newton(n, scale * CeilRoot(d2, 1))
       IN  IF n - r * r > r THEN r + 1 ELSE r

\* haversineMeters, in cm, for coordinates in units (see the header)
haversineMeters(lat1, lon1, lat2, lon2) ==
  LET dphi    == lat2 - lat1
      dlambda == lon2 - lon1
  IN  ScaledSqrt(CmPerUnit, dphi * dphi + dlambda * dlambda)

\* Math.round of a distance in cm, to whole metres (half rounds up)
MathRound(cm) == (cm + 50) \div 100

----------------------------------------------------------------------------
(* GridIndex *)
\* the cell key with the quotients truncated toward zero instead of floored
Trunc(a, b) == IF a >= 0 THEN a \div b ELSE -((-a) \div b)
cellTrunc(lat, lon) == <<Trunc(lat, GridDeg), Trunc(lon, GridDeg)>>

\* cell(lat, lon): Math.floor(lat / gridDeg), Math.floor(lon / gridDeg)
cell(lat, lon) == <<lat \div GridDeg, lon \div GridDeg>>

\* insert(idx, lat, lon) on the map g
insert(g, idx, lat, lon) ==
  LET key == cell(lat, lon)
      fix == [idx |-> idx, lat |-> lat, lon |-> lon]
  IN  IF key \in DOMAIN g
        THEN [g EXCEPT ![key] = Append(@, fix)]
        ELSE [k \in DOMAIN g \cup {key} |-> IF k = key THEN <<fix>> ELSE g[k]]

\* the nine keys query visits, in its order: dx = -1..1 outside, dy = -1..1 inside
Offsets == << <<-1,-1>>, <<-1,0>>, <<-1,1>>, <<0,-1>>, <<0,0>>, <<0,1>>,
              <<1,-1>>, <<1,0>>, <<1,1>> >>

RECURSIVE queryFrom(_, _, _, _)
queryFrom(g, cx, cy, k) ==
  IF k > Len(Offsets) THEN <<>>
  ELSE LET key == <<cx + Offsets[k][1], cy + Offsets[k][2]>>
       IN  (IF key \in DOMAIN g THEN g[key] ELSE <<>>) \o queryFrom(g, cx, cy, k + 1)

\* query(lat, lon) on the map g
query(g, lat, lon) == queryFrom(g, lat \div GridDeg, lon \div GridDeg, 1)

----------------------------------------------------------------------------
(* Matcher: the candidate loop of performMatch / of the POST row callback *)
\* candidates.forEach with <= in place of < : the last of equals wins
RECURSIVE bestFromLast(_, _, _, _, _)
bestFromLast(candidates, lat, lon, k, best) ==
  IF k > Len(candidates) THEN best
  ELSE LET c    == candidates[k]
           dist == haversineMeters(lat, lon, c.lat, c.lon)
           better == best.bestDist.t = "inf" \/ dist <= best.bestDist.v
       IN  bestFromLast(candidates, lat, lon, k + 1,
                        IF better THEN [bestIdx |-> Num(c.idx), bestDist |-> Num(dist)]
                        ELSE best)

\* candidates.forEach: a strictly smaller distance replaces the best so far
RECURSIVE bestFrom(_, _, _, _, _)
bestFrom(candidates, lat, lon, k, best) ==
  IF k > Len(candidates) THEN best
  ELSE LET c    == candidates[k]
           dist == haversineMeters(lat, lon, c.lat, c.lon)
           better == best.bestDist.t = "inf" \/ dist < best.bestDist.v
       IN  bestFrom(candidates, lat, lon, k + 1,
                    IF better THEN [bestIdx |-> Num(c.idx), bestDist |-> Num(dist)]
                    ELSE best)

\* gridIndex.query on parsed coordinates.  Math.floor(Infinity / gridDeg) is
\* Infinity, so the nine keys of an infinite coordinate name no bucket: the
\* index holds fixes of finite coordinates only (the model has no track row
\* with an infinite coordinate).
queryAt(g, lat, lon) ==
  IF lat.t = "num" /\ lon.t = "num" THEN query(g, lat.v, lon.v) ELSE << >>

\* let bestIdx = null, bestDist = Infinity
NoBest == [bestIdx |-> Null, bestDist |-> Infinity]

\* the candidates that no earlier asset of the run was matched to
Unused(candidates) ==
  SelectSeq(candidates,
            LAMBDA f : \A j \in 1..Len(picks) :
                         results[j].matched => picks[j].bestIdx # Num(f.idx))

\* the nearest candidate among those no earlier asset was matched to
nearestUnused(g, lat, lon) ==
  LET candidates == Unused(queryAt(g, lat, lon))
  IN  IF candidates = << >> THEN NoBest
      ELSE bestFrom(candidates, lat.v, lon.v, 1, NoBest)

nearest(g, lat, lon) ==
  LET candidates == queryAt(g, lat, lon)
  IN  IF candidates = << >> THEN NoBest
      ELSE bestFrom(candidates, lat.v, lon.v, 1, NoBest)

\* the threshold test left out
isMatchNoLimit(best, maxDist) == best.bestIdx.t # "null"

\* the threshold test reversed
isMatchReversed(best, maxDist) ==
  best.bestIdx.t # "null" /\ best.bestDist.t = "num" /\ best.bestDist.v >= maxDist

\* the threshold test made strict
isMatchStrict(best, maxDist) ==
  best.bestIdx.t # "null" /\ best.bestDist.t = "num" /\ best.bestDist.v < maxDist

\* bestIdx !== null && bestDist <= maxDistance
isMatch(best, maxDist) ==
  best.bestIdx.t # "null" /\ best.bestDist.t = "num" /\ best.bestDist.v <= maxDist

----------------------------------------------------------------------------
(* Column mapping *)
\* analyzeData, lines 80-86 and 156-157
rtisLatA   == findColumn(rtisData, <<"Latitude", "lat">>)
rtisLonA   == findColumn(rtisData, <<"Longitude", "lon">>)
rtisTimeA  == findColumn(rtisData, <<"Logging Time", "timestamp">>)
rtisSpeedA == findColumn(rtisData, <<"Speed", "speed_kmph">>)
labelOr(col, dflt) == IF col = NoColumn THEN dflt ELSE col
oheLabelA  == labelOr(findColumn(oheData, <<"OHEMas", "OHE", "pole">>), "OHEMas")
sigLabelA  == labelOr(findColumn(sigData, <<"SIGNAL", "SignalName", "Signal">>), "SIGNAL")
assetLatA(data) == findColumn(data, <<"lat", "latitude">>)
assetLonA(data) == findColumn(data, <<"lon", "longitude">>)

\* POST, lines 337-344
rtisLatP   == findColumn(rtisData, <<"Latitude", "latitude", "lat">>)
rtisLonP   == findColumn(rtisData, <<"Longitude", "longitude", "lon">>)
rtisTimeP  == findColumn(rtisData, <<"Logging Time", "LoggingTime", "timestamp">>)
rtisSpeedP == findColumn(rtisData, <<"Speed", "speed", "speed_kmph">>)
oheLatP    == findColumn(oheData, <<"Latitude", "latitude", "lat">>)
oheLonP    == findColumn(oheData, <<"Longitude", "longitude", "lon">>)
oheLabelP  == labelOr(findColumn(oheData, <<"OHEMas", "OHE", "pole", "pole_label">>), "OHEMas")

rtisLat   == IF variant = "POST" THEN rtisLatP ELSE rtisLatA
rtisLon   == IF variant = "POST" THEN rtisLonP ELSE rtisLonA

----------------------------------------------------------------------------
(* Inputs of the model *)
SeqsUpTo(S, n) == UNION {[1..k -> S] : k \in 0..n}

\* track rows before the header names are applied: lat, lon, time, speed cells
TrackBase == {
  [lat |-> Numeral(0),  lon |-> Numeral(0),  time |-> Str("T1"), speed |-> Numeral(40)],
  [lat |-> Numeral(2),  lon |-> Numeral(0),  time |-> Str("T2"), speed |-> Numeral(60)],
  [lat |-> Numeral(4),  lon |-> Numeral(0),  time |-> Str("T3"), speed |-> Numeral(80)],
  [lat |-> Numeral(0),  lon |-> Numeral(-1), time |-> Str("T4"), speed |-> Numeral(-5)],
  [lat |-> Numeral(-1), lon |-> Numeral(0),  time |-> Str(""),   speed |-> Str("abc")],
  [lat |-> Str("abc"),  lon |-> Numeral(0),  time |-> Str("T6"), speed |-> Numeral(40)] }

AssetBase == {
  [name |-> Str("A1"), lat |-> Numeral(1),  lon |-> Numeral(0)],
  [name |-> Str("A2"), lat |-> Numeral(0),  lon |-> Numeral(0)],
  [name |-> Str(""),   lat |-> Str("abc"),  lon |-> Numeral(0)] }

\* an asset row with an infinite latitude
InfiniteAsset == [name |-> Str("A3"), lat |-> Str("Infinity"), lon |-> Numeral(0)]

\* which field a header of the model names
Role(h) ==
  CASE h \in {"Latitude", "LATITUDE", "Lat_deg", "Y"} -> "lat"
    [] h \in {"Longitude", "X"}                       -> "lon"
    [] h = "Logging Time"                             -> "time"
    [] h = "Speed"                                    -> "speed"
    [] OTHER                                          -> "name"

\* parseCSV's row: one key per header
MkRow(headers, base) == [h \in headers |-> base[Role(h)]]
MkData(headers, rows) == [k \in 1..Len(rows) |-> MkRow(headers, rows[k])]

\* header lines of the uploaded files: track, OHE
StandardHeaders ==
  <<{"Latitude", "Longitude", "Logging Time", "Speed"}, {"OHEMas", "Latitude", "Longitude"}>>
OtherHeaders == {
  <<{"LATITUDE", "Longitude", "Logging Time"},          {"OHEMas", "Latitude", "Longitude"}>>,
  <<{"Lat_deg", "Longitude", "Logging Time", "Speed"},  {"OHEMas", "Latitude", "Longitude"}>>,
  <<{"Latitude", "Longitude", "Logging Time", "Speed"}, {"OHEMas", "Y", "X"}>> }
SignalHeaders == {"SIGNAL", "Latitude", "Longitude"}

\* thresholds handed in, cm: 0, 55.6 m (one unit exactly), 200 m
WideThreshold == 20000
Thresholds == {0, CmPerUnit, WideThreshold}

\* thresholds that are not positive, cm: 0 and -1 m
NonPositiveThresholds == {0, -100}

\* header lines, threshold and most rows of a run: every threshold with the
\* standard headers, the wide threshold and one row fewer with the others, and
\* one row fewer with a negative threshold
RunCases ==
  {[headers |-> StandardHeaders, maxDist |-> t, track |-> MaxTrack, assets |-> MaxAssets,
    assetRows |-> AssetBase] : t \in Thresholds}
  \cup
  {[headers |-> StandardHeaders, maxDist |-> t, track |-> MaxTrack - 1,
    assets |-> MaxAssets - 1, assetRows |-> AssetBase] :
     t \in NonPositiveThresholds \ Thresholds}
  \cup
  {[headers |-> h, maxDist |-> WideThreshold, track |-> MaxTrack - 1,
    assets |-> MaxAssets - 1, assetRows |-> AssetBase] : h \in OtherHeaders}
  \cup
  {[headers |-> StandardHeaders, maxDist |-> WideThreshold, track |-> MaxTrack - 1,
    assets |-> MaxAssets, assetRows |-> {a \in AssetBase : a.name # Str("")}
                                          \cup {InfiniteAsset}]}

\* no distance between far points is being computed
DistanceIdle ==
  /\ pointA = <<0, 0>>
  /\ pointB = <<0, 0>>
  /\ distAB = Null
  /\ distBA = Null

\* the assets are matched in list order
OrderIdle ==
  /\ pending = {}
  /\ order = << >>

NoFile == "null"

\* the page as first rendered, lines 15-23
PageIdle ==
  /\ rtisFile = NoFile
  /\ oheFile = NoFile
  /\ pageMaxDistance = 50
  /\ isProcessing = FALSE
  /\ status = [type |-> "idle", message |-> "Ready for Analysis"]
  /\ pageResults = Null
  /\ call = "none"
  /\ started = 0

\* the state of a handler when it is called on a run of `cases`
InitAnalysis(cases) ==
  /\ variant \in {"analyzeData", "POST"}
  /\ \E rc \in cases :
       /\ maxDistIn = rc.maxDist
       /\ \E t \in SeqsUpTo(TrackBase, rc.track) : rtisData = MkData(rc.headers[1], t)
       /\ \E a \in SeqsUpTo(rc.assetRows, rc.assets) :
            /\ oheData = MkData(rc.headers[2], a)
            /\ \E s \in SeqsUpTo(rc.assetRows, rc.assets - Len(a)) :
                 /\ variant = "POST" => s = <<>>
                 /\ sigData = MkData(SignalHeaders, s)
  /\ maxDistance = maxDistIn
  /\ pc = "start"
  /\ i = 1
  /\ grid = << >>
  /\ results = << >>
  /\ picks = << >>
  /\ oheMatches = 0
  /\ sigMatches = 0
  /\ totalSpeed = 0
  /\ speedCount = 0
  /\ maxSpeed = 0
  /\ minSpeed = Infinity
  /\ response = Null

Init ==
  /\ InitAnalysis(RunCases)
  /\ DistanceIdle
  /\ OrderIdle
  /\ PageIdle

----------------------------------------------------------------------------
(* Control: the handler runs the three forEach loops one after the other;  *)
(* a loop over no rows is passed without a step.                           *)
RECURSIVE Pos(_, _)
Pos(phase, k) ==
  CASE phase = "index" ->
         IF k <= Len(rtisData) THEN <<"index", k>> ELSE Pos("ohe", 1)
    [] phase = "ohe" ->
         IF k <= Len(oheData) THEN <<"ohe", k>>
         ELSE IF variant = "analyzeData" THEN Pos("sig", 1) ELSE <<"summary", 1>>
    [] phase = "sig" ->
         IF k <= Len(sigData) THEN <<"sig", k>> ELSE <<"summary", 1>>

GoTo(p) == pc' = p[1] /\ i' = p[2]

inputs == <<variant, rtisData, oheData, sigData, maxDistIn>>
accums == <<oheMatches, sigMatches, totalSpeed, speedCount, maxSpeed, minSpeed>>

\* analyzeData, lines 65-89: parse the three files, map the columns, new GridIndex
AnalyzeStart ==
  /\ pc = "start"
  /\ variant = "analyzeData"
  /\ maxDistance' = maxDistIn
  /\ GoTo(Pos("index", 1))
  /\ UNCHANGED <<inputs, aside, grid, results, picks, accums, response>>

\* POST, lines 296-367: read the form, parse, map the columns, reject when a
\* latitude/longitude column is missing
PostStart ==
  /\ pc = "start"
  /\ variant = "POST"
  /\ maxDistance' = IF maxDistIn = 0 THEN DefaultMaxDistance ELSE maxDistIn
  /\ IF NoColumn \in {rtisLatP, rtisLonP, oheLatP, oheLonP}
       THEN /\ pc' = "error"
            /\ i' = i
            /\ response' = [status |-> 400,
                            error  |-> "Required latitude/longitude columns not found"]
       ELSE /\ GoTo(Pos("index", 1))
            /\ response' = response
  /\ UNCHANGED <<inputs, aside, grid, results, picks, accums>>

\* validRtisPoints: how many fixes the map g holds
validRtisPoints(g) ==
  Cardinality(UNION {{g[k][n] : n \in 1..Len(g[k])} : k \in DOMAIN g})

\* the index loop storing the count of valid rows so far in place of the
\* row's position
InsertRowDense ==
  /\ pc = "index"
  /\ LET row == rtisData[i]
         lat == parseFloat(Cell(row, rtisLat))
         lon == parseFloat(Cell(row, rtisLon))
     IN  grid' = IF ~isNaN(lat) /\ ~isNaN(lon)
                   THEN insert(grid, validRtisPoints(grid), lat.v, lon.v)
                   ELSE grid
  /\ GoTo(Pos("index", i + 1))
  /\ UNCHANGED <<inputs, aside, maxDistance, results, picks, accums, response>>

\* rtisData.forEach((row, idx) => ...), lines 90-94 and 370-381
InsertRow ==
  /\ pc = "index"
  /\ LET row == rtisData[i]
         lat == parseFloat(Cell(row, rtisLat))
         lon == parseFloat(Cell(row, rtisLon))
     IN  grid' = IF ~isNaN(lat) /\ ~isNaN(lon)
                   THEN insert(grid, i - 1, lat.v, lon.v)
                   ELSE grid
  /\ GoTo(Pos("index", i + 1))
  /\ UNCHANGED <<inputs, aside, maxDistance, results, picks, accums, response>>

\* results.push(record), with the order reversed
pushFront(arr, rec) == <<rec>> \o arr

\* results.push(record)
push(arr, rec) == Append(arr, rec)

\* a counter bumped whatever the asset type
countAlways(type, wanted, n) == n + 1

\* if (type === 'OHE') oheMatches++ else sigMatches++ : the counter n of the
\* type `wanted` after a match of an asset of type `type`
countIf(type, wanted, n) == IF type = wanted THEN n + 1 ELSE n

\* the matched record with the parsed speed stored as it is, NaN included
matchedRecordRawSpeed(assetRow, labelKey, type, lat, lon, rRow, speed, bestDist) ==
  [asset_name   |-> OrElse(Cell(assetRow, labelKey), "Unknown"),
   asset_type   |-> type,
   latitude     |-> lat,
   longitude    |-> lon,
   logging_time |-> OrElse(Cell(rRow, rtisTimeA), ""),
   speed_kmph   |-> speed,
   matched      |-> TRUE,
   distance_m   |-> MathRound(bestDist)]

\* the matched record of analyzeData, lines 132-141
matchedRecordA(assetRow, labelKey, type, lat, lon, rRow, speed, bestDist) ==
  [asset_name   |-> OrElse(Cell(assetRow, labelKey), "Unknown"),
   asset_type   |-> type,
   latitude     |-> lat,
   longitude    |-> lon,
   logging_time |-> OrElse(Cell(rRow, rtisTimeA), ""),
   speed_kmph   |-> IF ~isNaN(speed) THEN speed ELSE Null,
   matched      |-> TRUE,
   distance_m   |-> MathRound(bestDist)]

\* the unmatched record of analyzeData, lines 143-151
unmatchedRecordA(assetRow, labelKey, type, lat, lon) ==
  [asset_name   |-> OrElse(Cell(assetRow, labelKey), "Unknown"),
   asset_type   |-> type,
   latitude     |-> lat,
   longitude    |-> lon,
   logging_time |-> "",
   speed_kmph   |-> Null,
   matched      |-> FALSE]

\* Math.max / Math.min on the accumulators
MathMax(a, b) == IF a >= b THEN a ELSE b
MathMin(acc, b) == IF acc.t = "inf" \/ b < acc.v THEN Num(b) ELSE acc

\* performMatch(assetRow, latKey, lonKey, labelKey, type), lines 104-153
performMatch(assetRow, latKey, lonKey, labelKey, type) ==
  LET lat == parseFloat(Cell(assetRow, latKey))
      lon == parseFloat(Cell(assetRow, lonKey))
  IN  IF isNaN(lat) \/ isNaN(lon)
        THEN UNCHANGED <<results, picks, accums>>
        ELSE
          LET best == nearest(grid, lat, lon)
          IN  IF isMatch(best, maxDistance)
                THEN
                  LET rRow  == rtisData[best.bestIdx.v + 1]
                      speed == parseFloat(Cell(rRow, rtisSpeedA))
                  IN  /\ oheMatches' = countIf(type, "OHE", oheMatches)
                      /\ sigMatches' = countIf(type, "Signal", sigMatches)
                      /\ IF ~isNaN(speed)
                           THEN /\ totalSpeed' = totalSpeed + speed.v
                                /\ speedCount' = speedCount + 1
                                /\ maxSpeed' = MathMax(maxSpeed, speed.v)
                           ELSE UNCHANGED <<totalSpeed, speedCount, maxSpeed>>
                      /\ results' = push(results,
                           matchedRecordA(assetRow, labelKey, type, lat, lon,
                                          rRow, speed, best.bestDist.v))
                      /\ picks' = Append(picks, best)
                      /\ UNCHANGED minSpeed
                ELSE
                  /\ results' = push(results,
                       unmatchedRecordA(assetRow, labelKey, type, lat, lon))
                  /\ picks' = Append(picks, best)
                  /\ UNCHANGED accums

\* the OHE loop with each asset added to the index once it is matched
MatchOheInserting ==
  /\ pc = "ohe"
  /\ variant = "analyzeData"
  /\ performMatch(oheData[i], assetLatA(oheData), assetLonA(oheData), oheLabelA, "OHE")
  /\ grid' = IF results' # results /\ results'[Len(results')].latitude.t = "num"
              THEN insert(grid, Len(rtisData) + i - 1,
                          results'[Len(results')].latitude.v,
                          results'[Len(results')].longitude.v)
              ELSE grid
  /\ GoTo(Pos("ohe", i + 1))
  /\ UNCHANGED <<inputs, aside, maxDistance, response>>

\* oheData.forEach(row => performMatch(row, ..., oheLabel, 'OHE')), line 156
MatchOhe ==
  /\ pc = "ohe"
  /\ variant = "analyzeData"
  /\ performMatch(oheData[i], assetLatA(oheData), assetLonA(oheData), oheLabelA, "OHE")
  /\ GoTo(Pos("ohe", i + 1))
  /\ UNCHANGED <<inputs, aside, maxDistance, grid, response>>

\* sigData.forEach(row => performMatch(row, ..., sigLabel, 'Signal')), line 157
MatchSignal ==
  /\ pc = "sig"
  /\ performMatch(sigData[i], assetLatA(sigData), assetLonA(sigData), sigLabelA, "Signal")
  /\ GoTo(Pos("sig", i + 1))
  /\ UNCHANGED <<inputs, aside, maxDistance, grid, response>>

\* the quotient a / b of two integers, kept exact
Ratio(a, b) == [num |-> a, den |-> b]

\* return { summary, results }, lines 159-168
AnalyzeReturn ==
  /\ pc = "summary"
  /\ variant = "analyzeData"
  /\ response' =
       [summary |->
          [total_assets    |-> Len(results),
           matched_ohe     |-> oheMatches,
           matched_signals |-> sigMatches,
           avg_speed       |-> IF speedCount > 0 THEN Ratio(totalSpeed, speedCount)
                               ELSE Ratio(0, 1),
           max_speed       |-> maxSpeed],
        results |-> results]
  /\ pc' = "done"
  /\ UNCHANGED <<inputs, aside, maxDistance, i, grid, results, picks, accums>>

----------------------------------------------------------------------------
(* The POST route handler *)
\* the matched record of POST, lines 426-433
matchedRecordP(oheRow, lat, lon, time, speed) ==
  [OHEMas       |-> OrElse(Cell(oheRow, oheLabelP), ""),
   latitude     |-> lat,
   longitude    |-> lon,
   logging_time |-> time,
   speed_kmph   |-> IF ~isNaN(speed) THEN speed ELSE Null,
   matched      |-> TRUE]

\* the unmatched record of POST, lines 443-450
unmatchedRecordP(oheRow, lat, lon) ==
  [OHEMas       |-> OrElse(Cell(oheRow, oheLabelP), ""),
   latitude     |-> lat,
   longitude    |-> lon,
   logging_time |-> "",
   speed_kmph   |-> Null,
   matched      |-> FALSE]

\* the callback of oheData.forEach, lines 402-455
postMatch(oheRow) ==
  LET lat == parseFloat(Cell(oheRow, oheLatP))
      lon == parseFloat(Cell(oheRow, oheLonP))
  IN  IF isNaN(lat) \/ isNaN(lon)
        THEN UNCHANGED <<results, picks, accums>>
        ELSE
          LET best == nearest(grid, lat, lon)
          IN  IF isMatch(best, maxDistance)
                THEN
                  LET rtisRow == rtisData[best.bestIdx.v + 1]
                      speed == IF rtisSpeedP # NoColumn
                                 THEN parseFloat(Cell(rtisRow, rtisSpeedP)) ELSE Null
                      time  == IF rtisTimeP # NoColumn
                                 THEN OrElse(Cell(rtisRow, rtisTimeP), "") ELSE ""
                  IN  /\ results' = push(results,
                           matchedRecordP(oheRow, lat, lon, time, speed))
                      /\ picks' = Append(picks, best)
                      /\ oheMatches' = oheMatches + 1
                      /\ IF speed.t = "num"
                           THEN /\ totalSpeed' = totalSpeed + speed.v
                                /\ speedCount' = speedCount + 1
                                /\ maxSpeed' = MathMax(maxSpeed, speed.v)
                                /\ minSpeed' = MathMin(minSpeed, speed.v)
                           ELSE UNCHANGED <<totalSpeed, speedCount, maxSpeed, minSpeed>>
                      /\ UNCHANGED sigMatches
                ELSE
                  /\ results' = push(results, unmatchedRecordP(oheRow, lat, lon))
                  /\ picks' = Append(picks, best)
                  /\ UNCHANGED accums

PostMatchOhe ==
  /\ pc = "ohe"
  /\ variant = "POST"
  /\ postMatch(oheData[i])
  /\ GoTo(Pos("ohe", i + 1))
  /\ UNCHANGED <<inputs, aside, maxDistance, grid, response>>

\* the rate computed without the test of the total
matchRateUnguarded(matchedCount, total) == Ratio(matchedCount * 100, total)

\* results.length > 0 ? (matchedCount / results.length) * 100 : 0
matchRate(matchedCount, total) ==
  IF total > 0 THEN Ratio(matchedCount * 100, total) ELSE Ratio(0, 1)

\* the summary and the JSON response, lines 457-468
PostReturn ==
  /\ pc = "summary"
  /\ variant = "POST"
  /\ response' =
       [status  |-> 200,
        summary |->
          [total_ohe_structures |-> Len(results),
           matched_structures   |-> oheMatches,
           unmatched_structures |-> Len(results) - oheMatches,
           match_rate           |-> matchRate(oheMatches, Len(results)),
           avg_speed            |-> IF speedCount > 0 THEN Ratio(totalSpeed, speedCount)
                                    ELSE Ratio(0, 1),
           max_speed            |-> maxSpeed,
           min_speed            |-> IF minSpeed.t = "inf" THEN 0 ELSE minSpeed.v],
        results |-> results]
  /\ pc' = "done"
  /\ UNCHANGED <<inputs, aside, maxDistance, i, grid, results, picks, accums>>

Next ==
  \/ AnalyzeStart
  \/ PostStart
  \/ InsertRow
  \/ MatchOhe
  \/ MatchSignal
  \/ PostMatchOhe
  \/ AnalyzeReturn
  \/ PostReturn

Spec == Init /\ [][Next]_vars

----------------------------------------------------------------------------
(* Vocabulary of the properties *)
\* the asset rows in the order the handler visits them
AssetRows == oheData \o sigData
AssetType(k) == IF k <= Len(oheData) THEN "OHE" ELSE "Signal"
AssetLatKey(k) ==
  IF variant = "POST" THEN oheLatP
  ELSE IF k <= Len(oheData) THEN assetLatA(oheData) ELSE assetLatA(sigData)
AssetLonKey(k) ==
  IF variant = "POST" THEN oheLonP
  ELSE IF k <= Len(oheData) THEN assetLonA(oheData) ELSE assetLonA(sigData)
AssetLat(k) == parseFloat(Cell(AssetRows[k], AssetLatKey(k)))
AssetLon(k) == parseFloat(Cell(AssetRows[k], AssetLonKey(k)))
HasCoords(k) == ~isNaN(AssetLat(k)) /\ ~isNaN(AssetLon(k))

\* how many asset rows the handler has visited
Visited ==
  CASE pc = "ohe" -> i - 1
    [] pc = "sig" -> Len(oheData) + i - 1
    [] pc \in {"summary", "done"} -> Len(AssetRows)
    [] OTHER -> 0

\* the visited asset rows neither coordinate of which is NaN, in input order: the
\* position k of the row in AssetRows and its parsed coordinates
Kept ==
  LET rows   == AssetRows
      nOhe   == Len(oheData)
      latOhe == AssetLatKey(1)
      lonOhe == AssetLonKey(1)
      latSig == AssetLatKey(nOhe + 1)
      lonSig == AssetLonKey(nOhe + 1)
      P == [k \in 1..Visited |->
              [k   |-> k,
               lat |-> parseFloat(Cell(rows[k], IF k <= nOhe THEN latOhe ELSE latSig)),
               lon |-> parseFloat(Cell(rows[k], IF k <= nOhe THEN lonOhe ELSE lonSig))]]
  IN  SelectSeq(P, LAMBDA a : ~isNaN(a.lat) /\ ~isNaN(a.lon))

Returned == pc = "done"

----------------------------------------------------------------------------
(* C1 *)
\* C1 as stated: the returned list has exactly one record per input asset row.
C1_OnePerAssetRow ==
  Returned => Len(response.results) = Len(AssetRows)

\* C1, amended: the returned list holds exactly one record per input asset row
\* whose latitude and longitude parse as numbers (neither parses to NaN), in
\* the order of those rows (OHE rows, then Signal rows).
C1_OnePerValidAssetInOrder ==
  Returned =>
    LET K == Kept
        R == response.results
    IN  /\ Len(R) = Len(K)
        /\ \A j \in 1..Len(R) :
             /\ R[j].latitude = K[j].lat
             /\ R[j].longitude = K[j].lon
             /\ variant = "analyzeData" => R[j].asset_type = AssetType(K[j].k)

\* two records of different assets were returned, after a row was dropped or not
C1_Witness ==
  /\ Returned
  /\ Len(response.results) = 2
  /\ response.results[1].latitude # response.results[2].latitude

----------------------------------------------------------------------------
(* C2 *)
HasDistance(r) == "distance_m" \in DOMAIN r

\* C2 as stated: in the results of analyzeData a matched record has distance_m
\* defined, non-negative and not greater than max_distance; an unmatched record
\* has no distance_m.  (distance_m is in metres, maxDistance in cm.)
C2_DistanceWithinThreshold ==
  (Returned /\ variant = "analyzeData") =>
    \A j \in 1..Len(results) :
      IF results[j].matched
        THEN /\ HasDistance(results[j])
             /\ results[j].distance_m >= 0
             /\ results[j].distance_m * 100 <= maxDistance
        ELSE ~HasDistance(results[j])

\* C2, amended: a matched record has distance_m defined, a non-negative whole
\* number of metres that is the selected distance rounded to the nearest metre;
\* the selected distance itself is not greater than max_distance, so distance_m
\* is at most max_distance + 0.5, and at most max_distance when max_distance is
\* a whole number of metres; an unmatched record has no distance_m.
C2_RoundedDistanceWithinThreshold ==
  (Returned /\ variant = "analyzeData") =>
    \A j \in 1..Len(results) :
      IF results[j].matched
        THEN /\ HasDistance(results[j])
             /\ results[j].distance_m >= 0
             /\ picks[j].bestDist.v <= maxDistance
             /\ results[j].distance_m * 100 - 50 <= picks[j].bestDist.v
             /\ picks[j].bestDist.v < results[j].distance_m * 100 + 50
             /\ results[j].distance_m * 100 <= maxDistance + 50
             /\ maxDistance % 100 = 0 => results[j].distance_m * 100 <= maxDistance
        ELSE ~HasDistance(results[j])

\* analyzeData returned a record matched at a distance above zero, rounded up,
\* and an unmatched record
C2_Witness ==
  /\ Returned
  /\ variant = "analyzeData"
  /\ \E j \in 1..Len(results) :
       /\ results[j].matched
       /\ results[j].distance_m * 100 > picks[j].bestDist.v
  /\ \E j \in 1..Len(results) : ~results[j].matched

----------------------------------------------------------------------------
(* C3 *)
\* thresholds to compare, cm: those of the runs, the POST default, and the
\* distances between the points of the model
ProbeThresholds ==
  Thresholds \cup NonPositiveThresholds \cup {DefaultMaxDistance}
    \cup {haversineMeters(0, 0, a, b) : a \in 0..2, b \in 0..1}

\* the nearest candidate of each of the assets K
NearestOf(K) == [j \in DOMAIN K |-> nearest(grid, K[j].lat, K[j].lon)]

\* the assets of K that the matcher matches on the current index under d,
\* given their nearest candidates B
MatchedUnder(K, B, d) == {K[j].k : j \in {n \in DOMAIN B : isMatch(B[n], d)}}

\* the assets of K whose record says matched
MatchedNow(K) == {K[j].k : j \in {n \in 1..Len(results) : results[n].matched}}

\* C3: for a fixed track and asset list, the assets matched under a threshold
\* d1 are matched under every d2 >= d1 (so the matched count does not
\* decrease), the run's own matches being those of its threshold.
C3_MonotoneInThreshold ==
  Returned =>
    LET K == Kept
        B == NearestOf(K)
        M == [d \in ProbeThresholds |-> MatchedUnder(K, B, d)]
    IN  /\ MatchedNow(K) = M[maxDistance]
        /\ \A d1 \in ProbeThresholds : \A d2 \in ProbeThresholds :
             d1 <= d2 =>
               /\ M[d1] \subseteq M[d2]
               /\ Cardinality(M[d1]) <= Cardinality(M[d2])

\* a run whose threshold matches one asset and leaves another unmatched that a
\* larger threshold matches
C3_Witness ==
  /\ Returned
  /\ LET K == Kept
         B == NearestOf(K)
     IN  /\ MatchedNow(K) # {}
         /\ \E d2 \in ProbeThresholds :
              /\ d2 > maxDistance
              /\ MatchedNow(K) # MatchedUnder(K, B, d2)

----------------------------------------------------------------------------
(* C4 *)
\* the asset file has rows, its latitude and longitude columns are found and
\* its first row has numeric coordinates
AssetsWellFormed ==
  /\ Len(oheData) > 0
  /\ AssetLatKey(1) # NoColumn
  /\ AssetLonKey(1) # NoColumn
  /\ HasCoords(1)

\* C4: when the track dataset has no rows (and the asset dataset is
\* well-formed), the analysis completes without error, every result has
\* matched = false and the summary's average speed is 0.
C4_EmptyTrackAllUnmatched ==
  (Len(rtisData) = 0 /\ AssetsWellFormed) =>
    /\ pc # "error"
    /\ \A j \in 1..Len(results) : ~results[j].matched
    /\ Returned => response.summary.avg_speed = Ratio(0, 1)

----------------------------------------------------------------------------
(* C5 *)
Min(S) == CHOOSE x \in S : \A y \in S : x <= y

\* the distances from (lat, lon) to the candidates
CandidateDistances(candidates, lat, lon) ==
  {haversineMeters(lat, lon, candidates[n].lat, candidates[n].lon) :
     n \in 1..Len(candidates)}

\* C5: a record is unmatched exactly when the index query for its asset
\* returns no candidate or the least candidate distance is strictly greater
\* than max_distance; an unmatched record has an empty logging_time,
\* speed_kmph = null, matched = false and no distance_m.
C5_UnmatchedIffNoneWithinThreshold ==
  Returned =>
    LET K == Kept
    IN  \A j \in 1..Len(results) :
          LET candidates == queryAt(grid, K[j].lat, K[j].lon)
              dists == IF candidates = << >> THEN {}
                       ELSE CandidateDistances(candidates, K[j].lat.v, K[j].lon.v)
          IN  /\ ~results[j].matched <=> (dists = {} \/ Min(dists) > maxDistance)
              /\ ~results[j].matched =>
                   /\ results[j].logging_time = ""
                   /\ results[j].speed_kmph = Null
                   /\ ~HasDistance(results[j])

\* a record matched at a distance equal to a positive max_distance, and a
\* record unmatched although the query returned candidates
C5_Witness ==
  /\ Returned
  /\ maxDistance > 0
  /\ \E j \in 1..Len(results) :
       results[j].matched /\ picks[j].bestDist.v = maxDistance
  /\ \E j \in 1..Len(results) :
       ~results[j].matched /\ picks[j].bestIdx # Null

----------------------------------------------------------------------------
(* C6 *)
\* the cell of a coordinate, from the definition of floor
Floor(a, b) == CHOOSE q \in -3..3 : q * b <= a /\ a < (q + 1) * b
CellOf(lat, lon) == <<Floor(lat, GridDeg), Floor(lon, GridDeg)>>

\* query enumerates fix f before fix g: the cell of f comes first in dx, then
\* in dy; inside one bucket the fix inserted first (the lower row index)
EnumeratedBefore(f, g) ==
  LET cf == CellOf(f.lat, f.lon)
      cg == CellOf(g.lat, g.lon)
  IN  \/ cf[1] < cg[1]
      \/ cf[1] = cg[1] /\ cf[2] < cg[2]
      \/ cf = cg /\ f.idx < g.idx

ToSet(seq) == {seq[n] : n \in 1..Len(seq)}

\* C6: the fix selected for an asset has the least distance among the
\* candidates of the query, and among the candidates at that distance it is the
\* one the query enumerates first; no fix is selected only when the query
\* returns none.
C6_NearestFirstEnumerated ==
  Returned =>
    LET K == Kept
    IN  \A j \in 1..Len(picks) :
          LET C == ToSet(queryAt(grid, K[j].lat, K[j].lon))
              D == [f \in C |-> haversineMeters(K[j].lat.v, K[j].lon.v, f.lat, f.lon)]
          IN  IF C = {}
                THEN picks[j].bestIdx = Null
                ELSE /\ picks[j].bestIdx # Null
                     /\ \E sel \in C :
                          /\ sel.idx = picks[j].bestIdx.v
                          /\ picks[j].bestDist = Num(D[sel])
                          /\ \A f \in C : D[sel] <= D[f]
                          /\ \A f \in C :
                               (f # sel /\ D[f] = D[sel]) => EnumeratedBefore(sel, f)

\* an asset whose selected fix ties with a candidate of a lower row index that
\* lies in another cell
C6_Witness ==
  LET K == Kept
  IN  \E j \in 1..Len(picks) :
        /\ picks[j].bestIdx # Null
        /\ \E f \in ToSet(queryAt(grid, K[j].lat, K[j].lon)) :
             /\ f.idx < picks[j].bestIdx.v
             /\ haversineMeters(K[j].lat.v, K[j].lon.v, f.lat, f.lon)
                  = picks[j].bestDist.v

\* an asset whose selected fix ties with a candidate of the same bucket
C6_WitnessSameBucket ==
  LET K == Kept
  IN  \E j \in 1..Len(picks) :
        /\ picks[j].bestIdx # Null
        /\ \E f \in ToSet(queryAt(grid, K[j].lat, K[j].lon)) :
             /\ f.idx > picks[j].bestIdx.v
             /\ CellOf(f.lat, f.lon) =
                  CellOf(parseFloat(Cell(rtisData[picks[j].bestIdx.v + 1], rtisLat)).v,
                         parseFloat(Cell(rtisData[picks[j].bestIdx.v + 1], rtisLon)).v)
             /\ haversineMeters(K[j].lat.v, K[j].lon.v, f.lat, f.lon)
                  = picks[j].bestDist.v

----------------------------------------------------------------------------
(* C7 *)
\* the cell of a track row that holds the field `role`, Undefined when the
\* file has no such column
Field(row, role) ==
  IF \E h \in DOMAIN row : Role(h) = role
    THEN row[CHOOSE h \in DOMAIN row : Role(h) = role]
    ELSE Undefined

\* C7: a matched record carries the timestamp and the speed of the track row
\* at the selected fix's sequence index, which is the row whose coordinates
\* were selected; when that row's speed is absent or not a number the record
\* has speed_kmph = null and is still matched.
C7_MatchedCopiesSelectedRow ==
  LET K == IF Returned THEN Kept ELSE <<>>
  IN  \A j \in 1..Len(K) :
        results[j].matched =>
          LET row   == rtisData[picks[j].bestIdx.v + 1]
              time  == Field(row, "time")
              speed == Field(row, "speed")
          IN  /\ Field(row, "lat").text = "numeral"
              /\ Field(row, "lon").text = "numeral"
              /\ haversineMeters(K[j].lat.v, K[j].lon.v,
                                 Field(row, "lat").v, Field(row, "lon").v)
                   = picks[j].bestDist.v
              /\ results[j].logging_time =
                   (IF time = Undefined THEN "" ELSE time.text)
              /\ results[j].speed_kmph =
                   (IF speed.text = "numeral" THEN Num(speed.v) ELSE Null)

\* a record matched to the second track row, carrying its timestamp, and a
\* matched record whose row has no numeric speed
C7_Witness ==
  /\ Returned
  /\ \E j \in 1..Len(results) :
       /\ results[j].matched
       /\ picks[j].bestIdx.v = 1
       /\ results[j].logging_time # ""
       /\ results[j].speed_kmph # Null
  /\ \E j \in 1..Len(results) :
       /\ results[j].matched
       /\ results[j].speed_kmph = Null

----------------------------------------------------------------------------
(* C8 *)
\* how many track rows the index loop has visited
Indexed ==
  CASE pc \in {"start", "error"} -> 0
    [] pc = "index" -> i - 1
    [] OTHER -> Len(rtisData)

\* the fixes inserted so far: the visited track rows with numeric coordinates
InsertedFixes ==
  LET latKey == rtisLat
      lonKey == rtisLon
  IN  {[idx |-> k - 1,
        lat |-> parseFloat(Cell(rtisData[k], latKey)).v,
        lon |-> parseFloat(Cell(rtisData[k], lonKey)).v] :
         k \in {n \in 1..Indexed :
                  /\ ~isNaN(parseFloat(Cell(rtisData[n], latKey)))
                  /\ ~isNaN(parseFloat(Cell(rtisData[n], lonKey)))}}

Abs(x) == IF x < 0 THEN -x ELSE x

\* the cell c differs from the cell d by at most 1 in each axis
Adjacent(c, d) == Abs(c[1] - d[1]) <= 1 /\ Abs(c[2] - d[2]) <= 1

\* the cell of f differs from the cell of (lat, lon) by at most 1 in each axis
InWindow(f, lat, lon) == Adjacent(CellOf(f.lat, f.lon), CellOf(lat, lon))

\* points to query: the asset points and points of other cells
ProbePoints == {<<0, 0>>, <<1, 0>>, <<3, -1>>, <<-3, 1>>}

\* C8: after any sequence of inserts (after each row of the index loop, and
\* when the matching is over), query(lat, lon) returns exactly the inserted
\* fixes whose cell differs from the query point's cell by at most 1 in each
\* axis, each once; so the fix selected for an asset is never outside that
\* window.
C8_QueryIsWindow ==
  LET F == InsertedFixes
      cellOfFix == [f \in F |-> CellOf(f.lat, f.lon)]
  IN  /\ pc \in {"index", "summary"} =>
           \A p \in ProbePoints :
             LET c  == query(grid, p[1], p[2])
                 cp == CellOf(p[1], p[2])
             IN  /\ ToSet(c) = {f \in F : Adjacent(cellOfFix[f], cp)}
                 /\ \A m \in 1..Len(c) : \A n \in 1..Len(c) : c[m] = c[n] => m = n
      /\ Returned =>
           LET K == Kept
           IN  \A j \in 1..Len(picks) :
                 picks[j].bestIdx # Null =>
                   \E f \in F :
                     /\ f.idx = picks[j].bestIdx.v
                     /\ Adjacent(cellOfFix[f], CellOf(K[j].lat.v, K[j].lon.v))

\* an asset left unmatched although an inserted fix outside its window is
\* within max_distance
C8_Witness ==
  /\ Returned
  /\ \E j \in 1..Len(results) :
       /\ ~results[j].matched
       /\ \E f \in InsertedFixes :
            /\ results[j].latitude.t = "num"
            /\ ~InWindow(f, results[j].latitude.v, results[j].longitude.v)
            /\ haversineMeters(results[j].latitude.v, results[j].longitude.v, f.lat, f.lon)
                 <= maxDistance

----------------------------------------------------------------------------
(* C9 *)
RECURSIVE Sum(_)
Sum(seq) == IF seq = <<>> THEN 0 ELSE Head(seq) + Sum(Tail(seq))
Max(S) == CHOOSE x \in S : \A y \in S : x >= y

\* the speeds of the returned records that are matched and carry a number
NumericSpeeds ==
  LET R == SelectSeq(response.results,
                     LAMBDA r : r.matched /\ r.speed_kmph.t = "num")
  IN  [j \in 1..Len(R) |-> R[j].speed_kmph.v]

\* the summary's statistics are those of the speeds S
StatisticsOf(S) ==
  LET sm == response.summary
  IN  IF S = <<>>
        THEN /\ sm.avg_speed = Ratio(0, 1)
             /\ sm.max_speed = 0
             /\ variant = "POST" => sm.min_speed = 0
        ELSE /\ sm.avg_speed.den > 0
             /\ sm.avg_speed.num * Len(S) = Sum(S) * sm.avg_speed.den
             /\ sm.max_speed = Max(ToSet(S))
             /\ variant = "POST" => sm.min_speed = Min(ToSet(S))

\* C9: the summary's average speed is the mean, its max_speed the maximum and
\* (in POST) its min_speed the minimum of the speeds of exactly the matched
\* records with a numeric speed, whatever those speeds; all are 0 when there is
\* no such record.
C9_SpeedStatistics ==
  Returned => StatisticsOf(NumericSpeeds)

\* the same holds of the code when no matched speed is negative
C9_SpeedStatisticsNonNegative ==
  (Returned /\ \A v \in ToSet(NumericSpeeds) : v >= 0) => StatisticsOf(NumericSpeeds)

----------------------------------------------------------------------------
(* C10 *)
CountOf(R, Test(_)) == Cardinality({j \in 1..Len(R) : Test(R[j])})

\* C10: the summary is recomputable from the returned records: total_assets is
\* their number, matched_ohe and matched_signals (matched_structures in POST)
\* are the numbers of matched records of each kind, and the matched total does
\* not exceed total_assets.
C10_SummaryFromResults ==
  Returned =>
    LET R  == response.results
        sm == response.summary
    IN  IF variant = "analyzeData"
          THEN /\ sm.total_assets = Len(R)
               /\ sm.matched_ohe =
                    CountOf(R, LAMBDA r : r.matched /\ r.asset_type = "OHE")
               /\ sm.matched_signals =
                    CountOf(R, LAMBDA r : r.matched /\ r.asset_type = "Signal")
               /\ sm.matched_ohe + sm.matched_signals <= sm.total_assets
          ELSE /\ sm.total_ohe_structures = Len(R)
               /\ sm.matched_structures = CountOf(R, LAMBDA r : r.matched)
               /\ sm.unmatched_structures = CountOf(R, LAMBDA r : ~r.matched)
               /\ sm.matched_structures <= sm.total_ohe_structures

\* analyzeData returned a matched OHE record and a matched Signal record
C10_Witness ==
  /\ Returned
  /\ variant = "analyzeData"
  /\ response.summary.matched_ohe = 1
  /\ response.summary.matched_signals = 1

----------------------------------------------------------------------------
(* C11 *)
\* C11: an analysis invoked with a max_distance that is zero or negative is
\* rejected before the index is built: the handler ends in an error response,
\* no track row is inserted, and no result record or summary is produced.
C11_NonPositiveThresholdRejected ==
  maxDistIn \in NonPositiveThresholds =>
    /\ pc \in {"start", "error"}
    /\ grid = << >>
    /\ results = << >>
    /\ response = Null \/ "error" \in DOMAIN response

----------------------------------------------------------------------------
(* C12 *)
\* the latitude and longitude aliases of the two handlers, lower-cased
LatAliases == {"latitude", "lat"}
LonAliases == {"longitude", "lon"}

\* the dataset has rows and no header matching a latitude alias, or none
\* matching a longitude alias
MissingCoordinateColumn(data) ==
  /\ Len(data) > 0
  /\ \/ \A h \in DOMAIN data[1] : toLowerCase(h) \notin LatAliases
     \/ \A h \in DOMAIN data[1] : toLowerCase(h) \notin LonAliases

MissingColumns ==
  \/ MissingCoordinateColumn(rtisData)
  \/ MissingCoordinateColumn(oheData)
  \/ MissingCoordinateColumn(sigData)

\* C12: when the track dataset or an asset dataset has no latitude column or
\* no longitude column, the analysis ends in an error: it builds no result
\* list and returns no results.
C12_MissingColumnsFail ==
  MissingColumns => (pc \notin {"summary", "done"} /\ "results" \notin DOMAIN response)

\* the same holds of the POST handler, which answers 400
C12_PostMissingColumnsFail ==
  (variant = "POST" /\ MissingColumns) =>
    /\ pc \in {"start", "error"}
    /\ pc = "error" => (response.status = 400 /\ "results" \notin DOMAIN response)

----------------------------------------------------------------------------
(* C13 *)
\* Number.isFinite
isFinite(x) == x.t = "num"

\* the visited asset rows whose latitude and longitude are both finite
FiniteKept == SelectSeq(Kept, LAMBDA a : isFinite(a.lat) /\ isFinite(a.lon))

\* C13: an asset row whose latitude or longitude is not a finite number
\* (non-numeric text or an infinite value) produces no result record and
\* raises no error, so that the records are those of the rows with finite
\* coordinates, one each and in order.
C13_NonFiniteAssetDropped ==
  Returned =>
    LET F == FiniteKept
        R == response.results
    IN  /\ Len(R) = Len(F)
        /\ \A j \in 1..Len(R) : isFinite(R[j].latitude) /\ isFinite(R[j].longitude)
        /\ \A j \in 1..Len(R) : R[j].latitude = F[j].lat /\ R[j].longitude = F[j].lon

\* the same holds of the code when no asset coordinate is infinite: a row
\* with non-numeric text is dropped without a record
C13_NonNumericAssetDropped ==
  (Returned /\ \A k \in 1..Len(AssetRows) : AssetLat(k) # Infinity) =>
    LET F == FiniteKept
        R == response.results
    IN  /\ Len(R) = Len(F)
        /\ \A j \in 1..Len(R) : R[j].latitude = F[j].lat /\ R[j].longitude = F[j].lon

----------------------------------------------------------------------------
(* C14 *)
\* C14: the match_rate reported by POST equals matched / total * 100, where
\* total is the number of result records and matched the number of them that
\* are matched, and is 0 when there is no record.
C14_MatchRate ==
  (Returned /\ variant = "POST") =>
    LET R    == response.results
        rate == response.summary.match_rate
        m    == CountOf(R, LAMBDA r : r.matched)
    IN  IF Len(R) = 0
          THEN rate = Ratio(0, 1)
          ELSE /\ rate.den > 0
               /\ rate.num * Len(R) = m * 100 * rate.den

\* POST returned two records of which one is matched: the rate is 50
C14_Witness ==
  /\ Returned
  /\ variant = "POST"
  /\ Len(response.results) = 2
  /\ response.summary.matched_structures = 1
  /\ response.summary.match_rate = Ratio(100, 2)

\* POST returned no record: the rate is 0
C14_WitnessNoRecord ==
  /\ Returned
  /\ variant = "POST"
  /\ Len(oheData) > 0
  /\ response.results = << >>
  /\ response.summary.match_rate = Ratio(0, 1)

----------------------------------------------------------------------------
(* C16 *)
\* the fixes the index holds, and how many entries its buckets have
GridFixes == UNION {ToSet(grid[k]) : k \in DOMAIN grid}
RECURSIVE TotalLen(_, _)
TotalLen(g, keys) ==
  IF keys = {} THEN 0
  ELSE LET k == CHOOSE x \in keys : TRUE
       IN  Len(g[k]) + TotalLen(g, keys \ {k})

\* the track row has a latitude or a longitude that is not a number
NonNumericRow(row) ==
  isNaN(parseFloat(Cell(row, rtisLat))) \/ isNaN(parseFloat(Cell(row, rtisLon)))

\* C16: at every step the index holds exactly the visited track rows with
\* numeric coordinates, each once, under its 0-based position in the track
\* dataset and with its own coordinates: a non-numeric row is never inserted
\* and the rows after it still are; the fix matched to an asset is never a
\* non-numeric row, and the row looked up by the stored index is the row whose
\* coordinates were selected.
C16_InvalidTrackRowSkipped ==
  /\ GridFixes = InsertedFixes
  /\ TotalLen(grid, DOMAIN grid) = Cardinality(GridFixes)
  /\ \A f \in GridFixes : ~NonNumericRow(rtisData[f.idx + 1])
  /\ Returned =>
       LET K == Kept
       IN  \A j \in 1..Len(picks) :
             picks[j].bestIdx # Null =>
               LET row == rtisData[picks[j].bestIdx.v + 1]
               IN  /\ ~NonNumericRow(row)
                   /\ haversineMeters(K[j].lat.v, K[j].lon.v,
                                      parseFloat(Cell(row, rtisLat)).v,
                                      parseFloat(Cell(row, rtisLon)).v)
                        = picks[j].bestDist.v

\* a non-numeric track row is followed by a numeric one, which an asset matched
C16_Witness ==
  /\ Returned
  /\ Len(rtisData) = 2
  /\ NonNumericRow(rtisData[1])
  /\ \E j \in 1..Len(results) : results[j].matched /\ picks[j].bestIdx = Num(1)

----------------------------------------------------------------------------
(* Matching in any order.  performMatch (the POST callback) is applied to  *)
(* the asset rows in an arbitrary order: the forEach loops of lines        *)
(* 156-157 and 402 over a permuted list, or over shards of it taken in any *)
(* interleaving.  The index loop and the return are those of the handlers. *)
AssetLabelKey(k) == IF k <= Len(oheData) THEN oheLabelA ELSE sigLabelA

\* one asset row, any of those still to match
MatchAnyAsset ==
  /\ pc \in {"ohe", "sig"}
  /\ \E k \in pending :
       /\ IF variant = "POST"
            THEN postMatch(oheData[k])
            ELSE performMatch(AssetRows[k], AssetLatKey(k), AssetLonKey(k),
                              AssetLabelKey(k), AssetType(k))
       /\ pending' = pending \ {k}
       /\ order' = Append(order, k)
       /\ pc' = IF pending = {k} THEN "summary" ELSE pc
  /\ i' = i
  /\ UNCHANGED <<inputs, distanceVars, pageVars, maxDistance, grid, response>>

\* the runs matched in any order: the standard headers and the threshold of
\* one unit, under which assets contend for the same fixes
AnyOrderCases ==
  {rc \in RunCases : /\ rc.headers = StandardHeaders
                     /\ rc.maxDist = CmPerUnit}

InitAnyOrder ==
  /\ InitAnalysis(AnyOrderCases)
  /\ DistanceIdle
  /\ PageIdle
  /\ pending = 1..Len(AssetRows)
  /\ order = << >>

NextAnyOrder ==
  \/ AnalyzeStart
  \/ PostStart
  \/ InsertRow
  \/ MatchAnyAsset
  \/ AnalyzeReturn
  \/ PostReturn

SpecAnyOrder == InitAnyOrder /\ [][NextAnyOrder]_vars

----------------------------------------------------------------------------
(* C17 *)
\* the record of asset row k as a function of the row, the index and
\* max_distance alone
RecordOf(k) ==
  LET row  == AssetRows[k]
      lat  == parseFloat(Cell(row, AssetLatKey(k)))
      lon  == parseFloat(Cell(row, AssetLonKey(k)))
      c    == queryAt(grid, lat, lon)
      best == IF c = << >> THEN NoBest ELSE bestFrom(c, lat.v, lon.v, 1, NoBest)
      hit  == best.bestIdx # Null /\ best.bestDist.v <= maxDistance
      rRow == rtisData[best.bestIdx.v + 1]
  IN  IF variant = "POST"
        THEN IF hit
               THEN matchedRecordP(row, lat, lon,
                      IF rtisTimeP # NoColumn THEN OrElse(Cell(rRow, rtisTimeP), "") ELSE "",
                      IF rtisSpeedP # NoColumn THEN parseFloat(Cell(rRow, rtisSpeedP))
                      ELSE Null)
               ELSE unmatchedRecordP(row, lat, lon)
        ELSE IF hit
               THEN matchedRecordA(row, AssetLabelKey(k), AssetType(k), lat, lon, rRow,
                                   parseFloat(Cell(rRow, rtisSpeedA)), best.bestDist.v)
               ELSE unmatchedRecordA(row, AssetLabelKey(k), AssetType(k), lat, lon)

\* the positions matched so far that have a record: neither coordinate is NaN
OrderKept == SelectSeq(order, HasCoords)

\* the speeds of the matched records so far that carry a number
SpeedsOf(R) ==
  LET M == SelectSeq(R, LAMBDA r : r.matched /\ r.speed_kmph.t = "num")
  IN  [j \in 1..Len(M) |-> M[j].speed_kmph.v]

\* C17: in whatever order the asset rows are matched, once all are matched the
\* record produced for an asset is the function RecordOf of its row, the index
\* and max_distance, and at every step the counters and speed totals are
\* functions of the bag of records produced: the counts and the sum, the
\* largest and the least of the speeds.
C17_OrderIndependent ==
  LET S == SpeedsOf(results)
  IN  /\ pending = {} =>
           LET O == OrderKept
           IN  /\ Len(results) = Len(O)
               /\ \A j \in 1..Len(results) : results[j] = RecordOf(O[j])
      /\ oheMatches =
           (IF variant = "POST" THEN CountOf(results, LAMBDA r : r.matched)
            ELSE CountOf(results, LAMBDA r : r.matched /\ r.asset_type = "OHE"))
      /\ sigMatches =
           (IF variant = "POST" THEN 0
            ELSE CountOf(results, LAMBDA r : r.matched /\ r.asset_type = "Signal"))
      /\ speedCount = Len(S)
      /\ totalSpeed = Sum(S)
      /\ maxSpeed = Max(ToSet(S) \cup {0})
      /\ variant = "POST" =>
           minSpeed = (IF S = << >> THEN Infinity ELSE Num(Min(ToSet(S))))
      /\ Returned => response.results = results

\* two assets were matched last row first, to different fixes with speeds
C17_Witness ==
  /\ Returned
  /\ order = <<2, 1>>
  /\ Len(results) = 2
  /\ results[1].matched /\ results[2].matched
  /\ picks[1].bestIdx # picks[2].bestIdx
  /\ speedCount = 2

----------------------------------------------------------------------------
(* C18 *)
\* index construction has finished
IndexBuilt == pc \in {"ohe", "sig", "summary", "done"}

\* the fixes of all the track rows with numeric coordinates
AllTrackFixes ==
  {[idx |-> k - 1,
    lat |-> parseFloat(Cell(rtisData[k], rtisLat)).v,
    lon |-> parseFloat(Cell(rtisData[k], rtisLon)).v] :
     k \in {n \in 1..Len(rtisData) : ~NonNumericRow(rtisData[n])}}

\* C18: once index construction has finished, no step changes the buckets of
\* the index or the track rows, whatever assets are matched; and the index
\* holds the fixes of the track rows only, never an asset.
C18_MatchingLeavesIndexUnchanged ==
  /\ [][IndexBuilt => (grid' = grid /\ rtisData' = rtisData)]_vars
  /\ [](IndexBuilt => GridFixes = AllTrackFixes)

\* two assets were matched against an index that holds a fix, one of them at
\* the position of the fix
C18_Witness ==
  /\ Returned
  /\ grid # << >>
  /\ Len(results) = 2
  /\ results[1].matched
  /\ picks[1].bestDist = Num(0)

----------------------------------------------------------------------------
(* Distance between far points.  The matcher above measures points less    *)
(* than 0.002 degree apart, where cos(phi1) * cos(phi2) is 1 to nine       *)
(* places.  Here haversineMeters is computed term by term for coordinates  *)
(* that are whole multiples of 30 degrees: sines and cosines are read from *)
(* a table of thousandths, a is kept in millionths, and the angle          *)
(* 2 * atan2(sqrt(a), sqrt(1 - a)) is found in arc minutes by inverting    *)
(* sin^2 on the table, linearly between its entries.                       *)
LatSteps == 2       \* latitudes  -30 * LatSteps .. 30 * LatSteps degrees
LonSteps == 2       \* longitudes -30 * LonSteps .. 30 * LonSteps degrees

MetresPerArcMinute == 1853   \* R * PI / 180 / 60 with R = 6371000.0

\* 1000 * sin of 0, 15, 30, 45, 60, 75, 90 degrees
SinTable == <<0, 259, 500, 707, 866, 966, 1000>>

\* 1000 * Math.sin of x degrees, x a multiple of 15 in -180..180
Sin(x) ==
  LET m == IF x < 0 THEN -x ELSE x
      r == IF m > 90 THEN 180 - m ELSE m
      v == SinTable[r \div 15 + 1]
  IN  IF x < 0 THEN -v ELSE v

\* 1000 * Math.cos of x degrees, x a multiple of 15 in -180..180
Cos(x) == Sin(90 - (IF x < 0 THEN -x ELSE x))

\* the angle c = 2 * atan2(sqrt(a), sqrt(1 - a)) in arc minutes, a in millionths
CentralAngle(a) ==
  IF a >= SinTable[7] * SinTable[7] THEN 2 * 90 * 60
  ELSE LET k  == CHOOSE n \in 1..6 :
                   SinTable[n] * SinTable[n] <= a /\ a < SinTable[n + 1] * SinTable[n + 1]
           lo == SinTable[k] * SinTable[k]
           hi == SinTable[k + 1] * SinTable[k + 1]
       IN  2 * (900 * (k - 1) + (900 * (a - lo)) \div (hi - lo))

\* lines 6-10 on dphi and dlambda in degrees and cosines in thousandths:
\* a = sin(dphi / 2) ** 2 + cosines * sin(dlambda / 2) ** 2, then R * c, in m
arcMeters(dphi, cosines, dlambda) ==
  LET sp == Sin(dphi \div 2)
      sl == Sin(dlambda \div 2)
      a  == sp * sp + ((cosines \div 100) * ((sl * sl) \div 100)) \div 100
  IN  MetresPerArcMinute * CentralAngle(a)

\* the distance with cos(phi1) taken twice in place of cos(phi1) * cos(phi2)
haversineFirstCosine(lat1, lon1, lat2, lon2) ==
  arcMeters(lat2 - lat1, Cos(lat1) * Cos(lat1), lon2 - lon1)

\* haversineMeters(lat1, lon1, lat2, lon2) for coordinates in degrees, in m
haversineFar(lat1, lon1, lat2, lon2) ==
  arcMeters(lat2 - lat1, Cos(lat1) * Cos(lat2), lon2 - lon1)

\* the points between which distances are computed
FarPoints ==
  {<<30 * la, 30 * lo>> : la \in -LatSteps..LatSteps, lo \in -LonSteps..LonSteps}

\* no analysis is running
AnalysisIdle ==
  /\ variant = "analyzeData"
  /\ rtisData = << >> /\ oheData = << >> /\ sigData = << >>
  /\ maxDistIn = DefaultMaxDistance /\ maxDistance = DefaultMaxDistance
  /\ pc = "idle" /\ i = 1
  /\ grid = << >> /\ results = << >> /\ picks = << >>
  /\ oheMatches = 0 /\ sigMatches = 0
  /\ totalSpeed = 0 /\ speedCount = 0 /\ maxSpeed = 0 /\ minSpeed = Infinity
  /\ response = Null

InitDistance ==
  /\ AnalysisIdle
  /\ OrderIdle
  /\ PageIdle
  /\ pointA \in FarPoints
  /\ pointB \in FarPoints
  /\ distAB = Null
  /\ distBA = Null

\* haversineMeters(a.lat, a.lon, b.lat, b.lon)
MeasureAB ==
  /\ distAB = Null
  /\ distAB' = Num(haversineFar(pointA[1], pointA[2], pointB[1], pointB[2]))
  /\ UNCHANGED <<analysisVars, orderVars, pageVars, pointA, pointB, distBA>>

\* haversineMeters(b.lat, b.lon, a.lat, a.lon)
MeasureBA ==
  /\ distBA = Null
  /\ distBA' = Num(haversineFar(pointB[1], pointB[2], pointA[1], pointA[2]))
  /\ UNCHANGED <<analysisVars, orderVars, pageVars, pointA, pointB, distAB>>

NextDistance == MeasureAB \/ MeasureBA

SpecDistance == InitDistance /\ [][NextDistance]_vars

----------------------------------------------------------------------------
(* C15 *)
\* C15: the distance function is symmetric: for all points a and b,
\* distance(a, b) = distance(b, a); checked on points up to a hemisphere
\* apart, once both distances are computed.
C15_DistanceSymmetric ==
  (distAB # Null /\ distBA # Null) => distAB = distBA

\* both distances are computed between points of different latitudes, one
\* nearer the equator than the other, and of different longitudes
C15_Witness ==
  /\ distAB # Null
  /\ distBA # Null
  /\ distAB.v > 0
  /\ pointA[1] * pointA[1] # pointB[1] * pointB[1]
  /\ pointA[2] # pointB[2]

----------------------------------------------------------------------------
(* The page component, src/app/page.tsx.  A step is one event handler run  *)
(* to its end or to its await, or the continuation of handleAnalyze after  *)
(* the awaited analyzeData promise settles; the state set by a step is     *)
(* rendered before the next event.                                         *)
MaxAnalyses == 2    \* most analyses started

\* the files a user may choose, and file.name.split(".").pop()?.toLowerCase()
FileNames == {"track.csv", "poles.XLSX", "notes.txt"}
ExtOf == ("track.csv" :> "csv") @@ ("poles.XLSX" :> "xlsx") @@ ("notes.txt" :> "txt")

\* the values typed into the distance field
DistanceInputs == {0, 50}

\* canAnalyze = rtisFile && oheFile && maxDistance > 0, line 74
canAnalyze == rtisFile # NoFile /\ oheFile # NoFile /\ pageMaxDistance > 0

\* the Analyze button: disabled={!canAnalyze || isProcessing}, line 157
ButtonDisabled == ~canAnalyze \/ isProcessing

\* the upload handlers, lines 25-49: status after a file of name f is chosen
uploadStatus(f, what) ==
  IF ExtOf[f] \in {"csv", "xlsx"}
    THEN [type |-> "idle", message |-> what]
    ELSE [type |-> "error",
          message |-> "Error: Invalid file format. Please upload CSV or Excel file."]

\* handleRtisUpload, lines 25-36
handleRtisUpload ==
  /\ \E f \in FileNames :
       /\ rtisFile' = IF ExtOf[f] \in {"csv", "xlsx"} THEN f ELSE rtisFile
       /\ status' = uploadStatus(f, "RTIS file uploaded")
  /\ UNCHANGED <<analysisVars, distanceVars, orderVars, oheFile, pageMaxDistance,
                 isProcessing, pageResults, call, started>>

\* handleOheUpload, lines 38-49
handleOheUpload ==
  /\ \E f \in FileNames :
       /\ oheFile' = IF ExtOf[f] \in {"csv", "xlsx"} THEN f ELSE oheFile
       /\ status' = uploadStatus(f, "OHE file uploaded")
  /\ UNCHANGED <<analysisVars, distanceVars, orderVars, rtisFile, pageMaxDistance,
                 isProcessing, pageResults, call, started>>

\* onChange of the distance field, line 150
setMaxDistance ==
  /\ \E v \in DistanceInputs : pageMaxDistance' = v
  /\ UNCHANGED <<analysisVars, distanceVars, orderVars, rtisFile, oheFile,
                 isProcessing, status, pageResults, call, started>>

\* handleAnalyze up to its return or its await, lines 51-61
handleAnalyze ==
  IF rtisFile = NoFile \/ oheFile = NoFile
    THEN /\ status' = [type |-> "error", message |-> "Error: Both files are required"]
         /\ UNCHANGED <<isProcessing, call, started>>
    ELSE /\ isProcessing' = TRUE
         /\ status' = [type |-> "processing", message |-> "Processing..."]
         /\ call' = "pending"
         /\ started' = started + 1

\* a click on the Analyze button, which is not disabled: onClick={handleAnalyze}
ClickAnalyze ==
  /\ ~ButtonDisabled
  /\ started < MaxAnalyses
  /\ handleAnalyze
  /\ UNCHANGED <<analysisVars, distanceVars, orderVars, rtisFile, oheFile,
                 pageMaxDistance, pageResults>>

\* handleAnalyze called while a file is missing: the button is disabled then,
\* so the call does not come from a click
AnalyzeWithoutFiles ==
  /\ rtisFile = NoFile \/ oheFile = NoFile
  /\ handleAnalyze
  /\ UNCHANGED <<analysisVars, distanceVars, orderVars, rtisFile, oheFile,
                 pageMaxDistance, pageResults>>

\* the rejection handled without the finally block
AnalysisRejectsNoFinally ==
  /\ call = "pending"
  /\ status' = [type |-> "error", message |-> "Error: Analysis failed"]
  /\ call' = "none"
  /\ UNCHANGED <<analysisVars, distanceVars, orderVars, rtisFile, oheFile,
                 pageMaxDistance, isProcessing, pageResults, started>>

\* The call of line 61 hands analyzeData three arguments; the analyzeData of
\* src/lib/analyzer.ts takes four and, called so, rejects at its line 73.
\* handleAnalyze provides for both outcomes of the promise, and both are kept.
\* the awaited promise resolves: lines 63-64, then finally, line 70
AnalysisResolves ==
  /\ call = "pending"
  /\ pageResults' = [data |-> started]
  /\ status' = [type |-> "success", message |-> "Success! Analysis complete."]
  /\ isProcessing' = FALSE
  /\ call' = "none"
  /\ UNCHANGED <<analysisVars, distanceVars, orderVars, rtisFile, oheFile,
                 pageMaxDistance, started>>

\* the awaited promise rejects: catch, lines 65-68, then finally, line 70
AnalysisRejects ==
  /\ call = "pending"
  /\ status' = [type |-> "error", message |-> "Error: Analysis failed"]
  /\ isProcessing' = FALSE
  /\ call' = "none"
  /\ UNCHANGED <<analysisVars, distanceVars, orderVars, rtisFile, oheFile,
                 pageMaxDistance, pageResults, started>>

InitPage ==
  /\ AnalysisIdle
  /\ DistanceIdle
  /\ OrderIdle
  /\ PageIdle

NextPage ==
  \/ handleRtisUpload
  \/ handleOheUpload
  \/ setMaxDistance
  \/ ClickAnalyze
  \/ AnalyzeWithoutFiles
  \/ AnalysisResolves
  \/ AnalysisRejects

\* the promise returned by analyzeData settles: the function has no unbounded
\* loop and awaits only the reading of the files
Settles == AnalysisResolves \/ AnalysisRejects

SpecPage ==
  /\ InitPage
  /\ [][NextPage]_vars
  /\ WF_vars(Settles)

----------------------------------------------------------------------------
(* C19 *)
MissingFile == rtisFile = NoFile \/ oheFile = NoFile

\* C19: (1) handleAnalyze with a missing file sets the status to error and
\* does not set isProcessing, which is never true while a file is missing;
\* (2) a step that sets isProcessing starts from both files present and an
\* enabled button, and sets the status to processing; (3) whether the analysis
\* resolves or rejects, isProcessing is eventually false again with status
\* success or error, and the status is never processing while isProcessing is
\* false; (4) the displayed results change only in the step that ends an
\* analysis with success; (5) while isProcessing is true the button is
\* disabled and no analysis starts.
C19_HandleAnalyze ==
  /\ [][AnalyzeWithoutFiles => (status'.type = "error" /\ ~isProcessing')]_vars
  /\ [](MissingFile => (~isProcessing /\ call = "none"))
  /\ [][(~isProcessing /\ isProcessing') =>
          /\ ~MissingFile
          /\ ~ButtonDisabled
          /\ status'.type = "processing"
          /\ started' = started + 1]_vars
  /\ (isProcessing ~> (~isProcessing /\ status.type \in {"success", "error"}))
  /\ [](~isProcessing => status.type # "processing")
  /\ [](isProcessing <=> call = "pending")
  /\ [][pageResults' # pageResults =>
          (isProcessing /\ ~isProcessing' /\ status'.type = "success")]_vars
  /\ [](isProcessing => ButtonDisabled)
  /\ [][isProcessing => started' = started]_vars
  /\ [][started' # started => (~isProcessing /\ isProcessing')]_vars

\* a second analysis was started after the first succeeded, and it failed:
\* the results displayed are still those of the first
C19_Witness ==
  /\ started = 2
  /\ ~isProcessing
  /\ status.type = "error"
  /\ pageResults = [data |-> 1]

====
